---- MODULE Spec2Model ----
(***************************************************************************)
(* State-machine model of src/Website.jsx (SoumikLifestyle): the eight     *)
(* useLocalStorage cells, the localStorage copy, the FileReader reads in   *)
(* flight, the wall clock, and the mutators / import / export / reload.    *)
(***************************************************************************)
EXTENDS Integers, Sequences, FiniteSets, TLC

\* ------------------------------------------------------------------ bounds
MaxNow == 3          \* the wall clock runs over 0..MaxNow (milliseconds)
TicksPerDay == 2     \* clock values per calendar day (scaled down)
MaxLen == 2          \* mutators stop adding to a collection of this length
MaxRewards == 30     \* toggles stop rewarding above this counter value
MaxPending == 2      \* FileReader reads in flight at once
DaysPerYear == 3     \* days in a year of the model's calendar

\* ---------------------------------------------------------- JS values
\* Every JavaScript value the program holds is a tagged record.
Undefined == [t |-> "undefined"]
Null == [t |-> "null"]
Bool(b) == [t |-> "boolean", b |-> b]
Num(n) == [t |-> "number", n |-> n]
NaN == [t |-> "number", nan |-> TRUE]
Str(s) == [t |-> "string", s |-> s]
Iso(ms) == [t |-> "string", iso |-> ms]      \* new Date().toISOString()
Arr(a) == [t |-> "array", a |-> a]
Obj(o) == [t |-> "object", o |-> o]
Updater == [t |-> "function"]                \* prev => ... passed to a setter

IsNum(v) == v.t = "number" /\ "n" \in DOMAIN v
IsArr(v) == v.t = "array"

\* a test for `!== undefined` in place of truthiness
Defined(v) == v.t # "undefined"

\* JS truthiness, as used by `if (newData.x)` and `item ? ... : ...`
Truthy(v) ==
  CASE v.t = "undefined" -> FALSE
    [] v.t = "null" -> FALSE
    [] v.t = "boolean" -> v.b
    [] v.t = "number" -> IF IsNum(v) THEN v.n # 0 ELSE FALSE
    [] v.t = "string" -> IF "s" \in DOMAIN v THEN v.s # "" ELSE TRUE
    [] OTHER -> TRUE

\* ToNumber on the operands the sums meet: null counts as 0
ToNumber(v) == IF v.t = "null" THEN Num(0) ELSE v
\* JS `a + b` and `a - b` on numbers: NaN is absorbing
Plus(a, b) ==
  IF IsNum(ToNumber(a)) /\ IsNum(ToNumber(b))
  THEN Num(ToNumber(a).n + ToNumber(b).n) ELSE NaN
Minus(a, b) ==
  IF IsNum(ToNumber(a)) /\ IsNum(ToNumber(b))
  THEN Num(ToNumber(a).n - ToNumber(b).n) ELSE NaN

\* parseFloat of a form field: the fields are texts; a text that does not
\* start with a number parses to NaN
parseFloat(txt) == IF txt.numeric THEN Num(txt.val) ELSE NaN

\* new Date(iso).toDateString(): the calendar day of a timestamp
DayOf(ms) == ms \div TicksPerDay
toDateString(iso) == DayOf(iso.iso)

\* ------------------------------------------------------------- JSON
NumericFields == {"amount", "duration"}

\* JSON.stringify of one entity record: a NaN number is written as null
JsonEntity(e) ==
  [f \in DOMAIN e |->
     IF f \in NumericFields /\ e[f] = NaN THEN Null ELSE e[f]]

\* JSON.stringify of a value held under one key: functions and undefined
\* have no JSON text (the result is the JS value undefined)
JsonValue(v) ==
  CASE v.t = "function" -> Undefined
    [] v.t = "undefined" -> Undefined
    [] v.t = "array" -> Arr([i \in DOMAIN v.a |-> JsonEntity(v.a[i])])
    [] v.t = "number" -> IF IsNum(v) THEN v ELSE Null
    [] OTHER -> v

\* JSON.stringify of the allData object: keys whose value is undefined are
\* dropped
JsonObject(o) ==
  LET kept == {k \in DOMAIN o : JsonValue(o[k]) # Undefined}
  IN Obj([k \in kept |-> JsonValue(o[k])])

\* A text is what a file or a localStorage item holds.
JsonText(doc) == [text |-> "json", doc |-> doc]
UndefinedText == [text |-> "undefined"]   \* String(undefined)
GarbageText == [text |-> "garbage"]       \* any text that is not JSON
NoItem == [text |-> "none"]               \* getItem() === null

\* String(JSON.stringify(v)) as localStorage.setItem stores it
StoredText(v) ==
  IF JsonValue(v) = Undefined THEN UndefinedText ELSE JsonText(JsonValue(v))

\* JSON.parse: succeeds exactly on JSON texts
Parses(txt) == txt.text = "json"
JsonParse(txt) == txt.doc

\* ------------------------------------------------------------- state
CollectionKeys ==
  {"habits", "todos", "expenses", "notes", "memories", "loans",
   "sleepSessions"}
Keys == CollectionKeys \cup {"rewards"}

VARIABLES
  store,          \* the eight useLocalStorage state cells, by key
  storage,        \* window.localStorage: key -> text
  now,            \* Date.now()
  pending,        \* FileReader reads in flight (sequence, any may finish)
  notice,         \* the last alert() shown: "none", "success", "error"
  crashed,        \* a render threw: the UI is gone until a reload
  download,       \* the last backup file written by exportData
  exportedStore,  \* history: the store exportData serialised into download
  writeFailed,    \* history: some localStorage.setItem has thrown
  screen          \* activeTab, the day of the last render, and the days on
                  \* which the getChartData and recentActivity memos last ran

vars ==
  <<store, storage, now, pending, notice, crashed, download, exportedStore,
    writeFailed, screen>>

habits == store["habits"]
todos == store["todos"]
expenses == store["expenses"]
notes == store["notes"]
memories == store["memories"]
loans == store["loans"]
rewards == store["rewards"]
sleepSessions == store["sleepSessions"]

\* useLocalStorage(key, initialValue): the second argument at each call site
initialValue(key) == IF key = "rewards" THEN Num(0) ELSE Arr(<<>>)

\* useLocalStorage's lazy initialiser: item ? JSON.parse(item) : initialValue,
\* and initialValue when JSON.parse throws
readStored(key, item) ==
  IF item = NoItem THEN initialValue(key)
  ELSE IF Parses(item) THEN JsonParse(item)
  ELSE initialValue(key)

\* The render of SoumikLifestyle calls filter/reduce/map on every collection
RenderThrows(st) == \E k \in CollectionKeys : ~IsArr(st[k])

\* useMemo dependency lists: the cells whose change re-runs the callback
ChartDeps == {"habits", "todos", "expenses", "sleepSessions"}
ActivityDeps == {"habits", "todos"}

\* recentActivity lives in DashboardView: no memo while another tab is shown
Unmounted == -1

\* the first render with tab shown: every memo callback runs
Mounted(tab) ==
  [activeTab |-> tab, rendered |-> DayOf(now), getChartData |-> DayOf(now),
   recentActivity |-> DayOf(now)]

Init ==
  /\ storage = [k \in Keys |-> NoItem]
  /\ store = [k \in Keys |-> readStored(k, NoItem)]
  /\ now = 0
  /\ pending = <<>>
  /\ notice = "none"
  /\ crashed = FALSE
  /\ download = NoItem
  /\ exportedStore = [k \in Keys |-> initialValue(k)]
  /\ writeFailed = FALSE
  /\ screen = Mounted("dashboard")

\* ------------------------------------------------- useLocalStorage setter
\* S is the triple of what a setter touches.  setStoredValue(newValue):
\* setValue(newValue) installs `result` (newValue itself, or what the updater
\* function computes); then setItem(key, JSON.stringify(newValue)) stores
\* the text of the ARGUMENT; a setItem that throws is caught and logged.
setStoredValue(S, key, newValue, result, fail) ==
  [store |-> [S.store EXCEPT ![key] = result],
   storage |-> IF key \in fail THEN S.storage
               ELSE [S.storage EXCEPT ![key] = StoredText(newValue)],
   writeFailed |-> S.writeFailed \/ key \in fail,
   set |-> S.set \cup {key}]

Cells ==
  [store |-> store, storage |-> storage, writeFailed |-> writeFailed,
   set |-> {}]

\* The render that follows a handler which called the setters of `set`:
\* React re-renders when a cell got a new array or a different number; a
\* memo callback runs again only when one of its dependencies changed.
Render(S) ==
  IF \A k \in S.set : k = "rewards" /\ S.store[k] = store[k]
  THEN screen
  ELSE [activeTab |-> screen.activeTab,
        rendered |-> DayOf(now),
        getChartData |-> IF S.set \cap ChartDeps # {}
                         THEN DayOf(now) ELSE screen.getChartData,
        recentActivity |-> IF screen.activeTab # "dashboard" THEN Unmounted
                           ELSE IF S.set \cap ActivityDeps # {}
                           THEN DayOf(now) ELSE screen.recentActivity]

Commit(S) ==
  /\ store' = S.store
  /\ storage' = S.storage
  /\ screen' = Render(S)
  /\ writeFailed' = S.writeFailed
  /\ crashed' = RenderThrows(S.store)

\* Array helpers
RECURSIVE FilterSeq(_, _)
FilterSeq(s, keep) ==
  IF s = <<>> THEN <<>>
  ELSE IF Head(s) \in keep THEN <<Head(s)>> \o FilterSeq(Tail(s), keep)
  ELSE FilterSeq(Tail(s), keep)

Elems(s) == {s[i] : i \in DOMAIN s}
Includes(s, x) == \E i \in DOMAIN s : s[i] = x

\* prev.filter(item => item.id === id)
OnlyId(a, id) == FilterSeq(a, {e \in Elems(a) : e.id = id})

\* prev.filter(item => item.id !== id)
WithoutId(a, id) == FilterSeq(a, {e \in Elems(a) : e.id # id})

\* ------------------------------------------------------------- clock
Tick ==
  /\ now < MaxNow
  /\ now' = now + 1
  /\ UNCHANGED <<screen, store, storage, pending, notice, crashed, download,
                 exportedStore, writeFailed>>

\* ---------------------------------------------------------------- tabs
Tabs ==
  {"dashboard", "habits", "todos", "sleep", "expenses", "loans", "notes",
   "memories"}

\* onClick={() => setActiveTab(tab.id)}: the App renders again with its memos
\* kept; DashboardView is mounted anew when its tab is chosen
setActiveTab(tab) ==
  /\ ~crashed
  /\ tab # screen.activeTab
  /\ screen' = [activeTab |-> tab,
                rendered |-> DayOf(now),
                getChartData |-> screen.getChartData,
                recentActivity |-> IF tab = "dashboard" THEN DayOf(now)
                                   ELSE Unmounted]
  /\ UNCHANGED <<store, storage, now, pending, notice, crashed, download,
                 exportedStore, writeFailed>>

\* ------------------------------------------------------------- habits
Names == {"a"}

newHabit(name) ==
  [id |-> now, name |-> name, completedDates |-> <<>>, createdAt |-> Iso(now)]

addHabit(name, fail) ==
  /\ ~crashed
  /\ Len(habits.a) < MaxLen
  /\ Commit(setStoredValue(Cells, "habits", Updater,
                           Arr(Append(habits.a, newHabit(name))), fail))
  /\ UNCHANGED <<now, pending, notice, download, exportedStore>>

\* h.completedDates || []
completedDatesOf(h) ==
  IF "completedDates" \in DOMAIN h THEN h.completedDates ELSE <<>>

\* toggleHabitMap without the includes test: every call appends today
toggleHabitMapAppend(h, id, today) ==
  IF h.id = id
  THEN [h EXCEPT !.completedDates = Append(completedDatesOf(h), today)]
  ELSE h

\* the map callback of toggleHabit, for one habit
toggleHabitMap(h, id, today) ==
  IF h.id = id
  THEN LET dates == completedDatesOf(h)
       IN IF Includes(dates, today)
          THEN [h EXCEPT !.completedDates = FilterSeq(dates, Elems(dates) \ {today})]
          ELSE [h EXCEPT !.completedDates = Append(dates, today)]
  ELSE h

\* the habits for which the map callback calls setRewards(prev => prev + 10)
toggleHabitRewarded(a, id, today) ==
  {i \in DOMAIN a : a[i].id = id /\ ~Includes(completedDatesOf(a[i]), today)}

\* addRewards with the sign wrong: every setRewards call takes d away
RECURSIVE addRewardsDown(_, _, _)
addRewardsDown(r, d, n) ==
  IF n = 0 THEN r ELSE addRewardsDown(Minus(r, Num(d)), d, n - 1)

\* n successive setRewards(prev => prev + d)
RECURSIVE addRewards(_, _, _)
addRewards(r, d, n) == IF n = 0 THEN r ELSE addRewards(Plus(r, Num(d)), d, n - 1)

HabitReward == 10

toggleHabit(id, fail) ==
  /\ ~crashed
  /\ IsNum(rewards) /\ rewards.n <= MaxRewards
  /\ LET today == DayOf(now)
         n == Cardinality(toggleHabitRewarded(habits.a, id, today))
         S1 == IF n = 0 THEN Cells
               ELSE setStoredValue(Cells, "rewards", Updater,
                                   addRewards(rewards, HabitReward, n), fail)
         S2 == setStoredValue(S1, "habits", Updater,
                 Arr([i \in DOMAIN habits.a |->
                        toggleHabitMap(habits.a[i], id, today)]), fail)
     IN Commit(S2)
  /\ UNCHANGED <<now, pending, notice, download, exportedStore>>

\* ------------------------------------------------------------- delete
\* deleteItem's setters table: type -> the key of the collection it filters
DeleteTypes == {"habit", "todo", "expense", "note", "memory", "loan", "sleep"}
\* the switch with the loan setter under case 'sleep'
setterKeySleepAsLoan(type) ==
  CASE type = "habit" -> "habits"
    [] type = "todo" -> "todos"
    [] type = "expense" -> "expenses"
    [] type = "note" -> "notes"
    [] type = "memory" -> "memories"
    [] type = "loan" -> "loans"
    [] type = "sleep" -> "loans"

setterKey(type) ==
  CASE type = "habit" -> "habits"
    [] type = "todo" -> "todos"
    [] type = "expense" -> "expenses"
    [] type = "note" -> "notes"
    [] type = "memory" -> "memories"
    [] type = "loan" -> "loans"
    [] type = "sleep" -> "sleepSessions"

deleteItem(type, id, fail) ==
  /\ ~crashed
  /\ IF type \in DeleteTypes
     THEN Commit(setStoredValue(Cells, setterKey(type), Updater,
                   Arr(WithoutId(store[setterKey(type)].a, id)), fail))
     ELSE UNCHANGED <<screen, store, storage, writeFailed, crashed>>
  /\ UNCHANGED <<now, pending, notice, download, exportedStore>>

Ids == 0..MaxNow

\* ------------------------------------------------------------- todos
newTodo(task) ==
  [id |-> now, task |-> task, completed |-> FALSE, photo |-> Null,
   createdAt |-> Iso(now)]

addTodo(task, fail) ==
  /\ ~crashed
  /\ Len(todos.a) < MaxLen
  /\ Commit(setStoredValue(Cells, "todos", Updater,
                           Arr(Append(todos.a, newTodo(task))), fail))
  /\ UNCHANGED <<now, pending, notice, download, exportedStore>>

\* the map callback of toggleTodo: both branches flip a matching task
toggleTodoMap(t, id) ==
  IF t.id = id /\ ~t.completed THEN [t EXCEPT !.completed = ~t.completed]
  ELSE IF t.id = id THEN [t EXCEPT !.completed = ~t.completed]
  ELSE t

\* the tasks for which the map callback calls setRewards(prev => prev + 5)
toggleTodoRewarded(a, id) == {i \in DOMAIN a : a[i].id = id /\ ~a[i].completed}

TodoReward == 5

toggleTodo(id, fail) ==
  /\ ~crashed
  /\ IsNum(rewards) /\ rewards.n <= MaxRewards
  /\ LET n == Cardinality(toggleTodoRewarded(todos.a, id))
         S1 == IF n = 0 THEN Cells
               ELSE setStoredValue(Cells, "rewards", Updater,
                                   addRewards(rewards, TodoReward, n), fail)
         S2 == setStoredValue(S1, "todos", Updater,
                 Arr([i \in DOMAIN todos.a |-> toggleTodoMap(todos.a[i], id)]),
                 fail)
     IN Commit(S2)
  /\ UNCHANGED <<now, pending, notice, download, exportedStore>>

\* ---------------------------------------------------- FileReader reads
\* reader.readAsDataURL / readAsText only start a read; onload runs later.
Images == {"img"}
DataUrl(image) == Str(image)     \* e.target.result of readAsDataURL

RemoveAt(s, k) == [i \in 1..(Len(s) - 1) |-> IF i < k THEN s[i] ELSE s[i + 1]]

uploadTodoPhoto(id, image) ==
  /\ ~crashed
  /\ Len(pending) < MaxPending
  /\ pending' = Append(pending, [kind |-> "photo", id |-> id, image |-> image])
  /\ UNCHANGED <<screen, store, storage, now, notice, crashed, download,
                 exportedStore, writeFailed>>

\* prev.map(t => ({ ...t, photo: reader.result }))
uploadTodoPhotoAll(t, id, result) == [t EXCEPT !.photo = result]

\* the map callback of uploadTodoPhoto's onload
uploadTodoPhotoMap(t, id, result) ==
  IF t.id = id THEN [t EXCEPT !.photo = result] ELSE t

\* reader.onload of uploadTodoPhoto, for the k-th read in flight
todoPhotoLoaded(k, fail) ==
  /\ k \in DOMAIN pending
  /\ pending[k].kind = "photo"
  /\ IsArr(todos)
  /\ Commit(setStoredValue(Cells, "todos", Updater,
       Arr([i \in DOMAIN todos.a |->
              uploadTodoPhotoMap(todos.a[i], pending[k].id,
                                 DataUrl(pending[k].image))]), fail))
  /\ pending' = RemoveAt(pending, k)
  /\ UNCHANGED <<now, notice, download, exportedStore>>

\* ------------------------------------------------------------- memories
addMemory(title, image) ==
  /\ ~crashed
  /\ Len(pending) < MaxPending
  /\ pending' = Append(pending,
                       [kind |-> "memory", title |-> title, image |-> image])
  /\ UNCHANGED <<screen, store, storage, now, notice, crashed, download,
                 exportedStore, writeFailed>>

newMemory(title, result) ==
  [id |-> now, title |-> title, photo |-> result, createdAt |-> Iso(now)]

\* reader.onload of addMemory with setMemories(prev => [newMemory, ...prev])
memoryLoadedFirst(k, fail) ==
  /\ k \in DOMAIN pending
  /\ pending[k].kind = "memory"
  /\ IsArr(memories)
  /\ Len(memories.a) < MaxLen
  /\ Commit(setStoredValue(Cells, "memories", Updater,
       Arr(<<newMemory(pending[k].title, DataUrl(pending[k].image))>>
             \o memories.a),
       fail))
  /\ pending' = RemoveAt(pending, k)
  /\ UNCHANGED <<now, notice, download, exportedStore>>

\* reader.onload of addMemory, for the k-th read in flight
memoryLoaded(k, fail) ==
  /\ k \in DOMAIN pending
  /\ pending[k].kind = "memory"
  /\ IsArr(memories)
  /\ Len(memories.a) < MaxLen
  /\ Commit(setStoredValue(Cells, "memories", Updater,
       Arr(Append(memories.a,
                  newMemory(pending[k].title, DataUrl(pending[k].image)))),
       fail))
  /\ pending' = RemoveAt(pending, k)
  /\ UNCHANGED <<now, notice, download, exportedStore>>

\* ------------------------------------------------------------- expenses
\* what the amount / duration form fields may hold
AmountTexts ==
  {[numeric |-> TRUE, val |-> 1], [numeric |-> TRUE, val |-> 2],
   [numeric |-> FALSE]}
Categories == {"Food", "Transport"}

newExpense(description, amount, category) ==
  [id |-> now, description |-> description, amount |-> parseFloat(amount),
   category |-> category, date |-> Iso(now)]

addExpense(description, amount, category, fail) ==
  /\ ~crashed
  /\ Len(expenses.a) < MaxLen
  /\ Commit(setStoredValue(Cells, "expenses", Updater,
       Arr(Append(expenses.a, newExpense(description, amount, category))),
       fail))
  /\ UNCHANGED <<now, pending, notice, download, exportedStore>>

\* ------------------------------------------------------------- notes
newNote(title, content) ==
  [id |-> now, title |-> title, content |-> content, createdAt |-> Iso(now)]

addNote(title, content, fail) ==
  /\ ~crashed
  /\ Len(notes.a) < MaxLen
  /\ Commit(setStoredValue(Cells, "notes", Updater,
                           Arr(Append(notes.a, newNote(title, content))), fail))
  /\ UNCHANGED <<now, pending, notice, download, exportedStore>>

\* ------------------------------------------------------------- loans
\* addLoan sets no dateReturned field
newLoan(personName, amount, note) ==
  [id |-> now, personName |-> personName, amount |-> parseFloat(amount),
   note |-> note, returned |-> FALSE, dateGiven |-> Iso(now)]

addLoan(personName, amount, note, fail) ==
  /\ ~crashed
  /\ Len(loans.a) < MaxLen
  /\ Commit(setStoredValue(Cells, "loans", Updater,
       Arr(Append(loans.a, newLoan(personName, amount, note))), fail))
  /\ UNCHANGED <<now, pending, notice, download, exportedStore>>

\* toggleLoanReturnMap without the clearing branch: the date survives an
\* un-return
toggleLoanReturnKeepDate(l, id, ms) ==
  IF l.id = id
  THEN [f \in DOMAIN l \cup {"dateReturned"} |->
          CASE f = "returned" -> ~l.returned
            [] f = "dateReturned" ->
                 IF ~l.returned THEN Iso(ms) ELSE l.dateReturned
            [] OTHER -> l[f]]
  ELSE l

\* { ...l, returned: !l.returned, dateReturned: !l.returned ? now : null }
toggleLoanReturnMap(l, id, ms) ==
  IF l.id = id
  THEN [f \in DOMAIN l \cup {"dateReturned"} |->
          CASE f = "returned" -> ~l.returned
            [] f = "dateReturned" -> IF ~l.returned THEN Iso(ms) ELSE Null
            [] OTHER -> l[f]]
  ELSE l

toggleLoanReturn(id, fail) ==
  /\ ~crashed
  /\ Commit(setStoredValue(Cells, "loans", Updater,
       Arr([i \in DOMAIN loans.a |-> toggleLoanReturnMap(loans.a[i], id, now)]),
       fail))
  /\ UNCHANGED <<now, pending, notice, download, exportedStore>>

\* ------------------------------------------------------------- sleep
newSession(duration, isAfternoon) ==
  [id |-> now, duration |-> parseFloat(duration), isAfternoon |-> isAfternoon,
   date |-> Iso(now)]

addSleepSession(duration, isAfternoon, fail) ==
  /\ ~crashed
  /\ Len(sleepSessions.a) < MaxLen
  /\ Commit(setStoredValue(Cells, "sleepSessions", Updater,
       Arr(Append(sleepSessions.a, newSession(duration, isAfternoon))), fail))
  /\ UNCHANGED <<now, pending, notice, download, exportedStore>>

\* ------------------------------------------------------------ aggregates
\* a.reduce((sum, e) => sum + e[field], 0)
RECURSIVE SumFrom(_, _, _)
SumFrom(sum, a, field) ==
  IF a = <<>> THEN sum
  ELSE SumFrom(Plus(sum, Head(a)[field]), Tail(a), field)
SumField(a, field) == SumFrom(Num(0), a, field)

\* loans.filter(l => !l.returned).reduce(...)   (SoumikLifestyle)
pendingLoansAmount ==
  SumField(FilterSeq(loans.a, {l \in Elems(loans.a) : ~l.returned}), "amount")

\* LoanTracker
totalLent == SumField(loans.a, "amount")
totalReturned ==
  SumField(FilterSeq(loans.a, {l \in Elems(loans.a) : l.returned}), "amount")
pendingAmount == Minus(totalLent, totalReturned)

totalExpenses == SumField(expenses.a, "amount")

\* ExpenseTracker.categoryTotals: totals is an object, here the categories in
\* first-seen order and their entries;
\* totals[c] = (totals[c] || 0) + expense.amount
RECURSIVE categoryTotalsFrom(_, _)
categoryTotalsFrom(totals, a) ==
  IF a = <<>> THEN totals
  ELSE LET c == Head(a).category
           seen == Includes(totals.keys, c)
           old == IF seen /\ Truthy(totals.val[c]) THEN totals.val[c] ELSE Num(0)
           entry == Plus(old, Head(a).amount)
       IN categoryTotalsFrom(
            [keys |-> IF seen THEN totals.keys ELSE Append(totals.keys, c),
             val |-> [k \in DOMAIN totals.val \cup {c} |->
                        IF k = c THEN entry ELSE totals.val[k]]],
            Tail(a))
categoryTotals == categoryTotalsFrom([keys |-> <<>>, val |-> <<>>], expenses.a)

\* The calendar of the model: a year has DaysPerYear days, and day 0 is the
\* last day of its year, so that day 1 opens the next year.
\* toLocaleDateString('en-US', { month: 'short', day: 'numeric' }): the place
\* of a day in its year, without the year
shortDate(day) == (day + DaysPerYear - 1) % DaysPerYear

\* a.filter(x => new Date(x[field]).toDateString() === dateStr)
OnDay(a, field, dateStr) ==
  SelectSeq(a, LAMBDA x : toDateString(x[field]) = dateStr)

\* one pass of the loop of getChartData, for the day i days before today
ChartDays == 7
chartRecord(today, i) ==
  LET dateStr == today - i
      habitsCompleted ==
        Len(SelectSeq(habits.a,
                      LAMBDA h : Includes(completedDatesOf(h), dateStr)))
      todosCompleted ==
        Len(SelectSeq(todos.a,
                      LAMBDA t : t.completed
                                 /\ toDateString(t.createdAt) = dateStr))
      dayExpenses == SumField(OnDay(expenses.a, "date", dateStr), "amount")
      daySleep == SumField(OnDay(sleepSessions.a, "date", dateStr), "duration")
  IN [date |-> shortDate(dateStr), Habits |-> habitsCompleted,
      Tasks |-> todosCompleted, Expenses |-> dayExpenses, Sleep |-> daySleep]

\* the callback of the getChartData memo, run on day today:
\* for (let i = 6; i >= 0; i--) last7Days.push(...)
last7Days(today) ==
  [k \in 1..ChartDays |-> chartRecord(today, ChartDays - k)]

\* what the memo holds: the callback's result of the day it last ran (its
\* dependencies are the four collections, which are as they were then)
getChartData == last7Days(screen.getChartData)

\* the todaySleep memo: todayStr is among its dependencies, so it is of the
\* day of the last render
todaySleep ==
  SumField(OnDay(sleepSessions.a, "date", screen.rendered), "duration")

\* SleepTracker.sleepChartData.  Object.keys(sessionsByDate): the days of the
\* sessions, each once, in the order of their first session
RECURSIVE keysFrom(_, _)
keysFrom(keys, a) ==
  IF a = <<>> THEN keys
  ELSE LET dateStr == toDateString(Head(a).date)
       IN keysFrom(IF Includes(keys, dateStr) THEN keys
                   ELSE Append(keys, dateStr), Tail(a))

\* the record of one key: the two sums of its sessions, and a label that
\* has lost the year
sleepRecord(dateStr) ==
  LET sessions == OnDay(sleepSessions.a, "date", dateStr)
      afternoonSleep ==
        SumField(SelectSeq(sessions, LAMBDA s : s.isAfternoon), "duration")
      nightSleep ==
        SumField(SelectSeq(sessions, LAMBDA s : ~s.isAfternoon), "duration")
  IN [date |-> shortDate(dateStr), nightSleep |-> nightSleep,
      afternoonSleep |-> afternoonSleep]

\* new Date(label) of a label such as "Jan 5" depends on the engine: some
\* read it as that day of one fixed year, some as an Invalid Date (NaN)
Engines == {"fixedYear", "invalid"}
\* the comparator (a, b) => new Date(a.date) - new Date(b.date) says that a
\* goes after b; a NaN difference counts as 0
After(engine, a, b) == engine = "fixedYear" /\ a.date > b.date

\* Array.prototype.sort is stable: r goes behind the records it is not
\* before
RECURSIVE insertSorted(_, _, _)
insertSorted(engine, sorted, r) ==
  IF sorted = <<>> THEN <<r>>
  ELSE IF After(engine, Head(sorted), r) THEN <<r>> \o sorted
  ELSE <<Head(sorted)>> \o insertSorted(engine, Tail(sorted), r)
RECURSIVE sortFrom(_, _, _)
sortFrom(engine, sorted, a) ==
  IF a = <<>> THEN sorted
  ELSE sortFrom(engine, insertSorted(engine, sorted, Head(a)), Tail(a))

sleepChartData(engine) ==
  LET keys == keysFrom(<<>>, sleepSessions.a)
      chartData == [k \in DOMAIN keys |-> sleepRecord(keys[k])]
  IN sortFrom(engine, <<>>, chartData)

\* DashboardView.recentActivity.  a.slice(0, n) and a.slice(-n)
sliceFirst(a, n) == SubSeq(a, 1, IF Len(a) < n THEN Len(a) ELSE n)
sliceLast(a, n) == SubSeq(a, IF Len(a) < n THEN 1 ELSE Len(a) - n + 1, Len(a))

\* the callback of the recentActivity memo, run on day today; a line's text
\* is "Completed habit: " or "Completed task: " and the name kept here
HabitLines == 3
TodoLines == 3
ActivityLines == 6
recentActivityOn(today) ==
  LET done == SelectSeq(habits.a,
                        LAMBDA h : Includes(completedDatesOf(h), today))
      completedHabits ==
        [k \in DOMAIN sliceFirst(done, HabitLines) |->
           [type |-> "habit", text |-> sliceFirst(done, HabitLines)[k].name]]
      finished == SelectSeq(todos.a, LAMBDA t : t.completed)
      completedTodos ==
        [k \in DOMAIN sliceLast(finished, TodoLines) |->
           [type |-> "todo", text |-> sliceLast(finished, TodoLines)[k].task]]
  IN sliceFirst(completedHabits \o completedTodos, ActivityLines)

\* what the memo of the mounted DashboardView holds
recentActivity == recentActivityOn(screen.recentActivity)

\* ------------------------------------------------------ export / import
\* the allData memo: the eight cells plus exportDate (the time the memo was
\* computed; nothing reads it back, setAllData ignores the key)
allData ==
  [k \in Keys \cup {"exportDate"} |->
     IF k = "exportDate" THEN Iso(now) ELSE store[k]]

\* exportData(allData): JSON.stringify into a downloaded file
exportData ==
  /\ ~crashed
  /\ download' = JsonText(JsonObject(allData))
  /\ exportedStore' = store
  /\ UNCHANGED <<screen, store, storage, now, pending, notice, crashed,
                 writeFailed>>

\* onImport of the import dialog: importData(file, setAllData) only starts
\* reader.readAsText(file), and setShowImportModal(false) makes the App
\* render again with every memo dependency as it was
importData(file) ==
  /\ ~crashed
  /\ Len(pending) < MaxPending
  /\ pending' = Append(pending, [kind |-> "import", file |-> file])
  /\ screen' = [screen EXCEPT !.rendered = DayOf(now)]
  /\ UNCHANGED <<store, storage, now, notice, crashed, download,
                 exportedStore, writeFailed>>

\* newData.key: undefined unless newData is an object that has the key
Get(newData, key) ==
  IF newData.t = "object" /\ key \in DOMAIN newData.o
  THEN newData.o[key] ELSE Undefined

\* setIfPresent as a full replace would be: a missing key resets its cell
setIfPresentOrReset(S, newData, key, fail) ==
  IF Truthy(Get(newData, key))
  THEN setStoredValue(S, key, Get(newData, key), Get(newData, key), fail)
  ELSE setStoredValue(S, key, initialValue(key), initialValue(key), fail)

\* one line of setAllData: if (newData.key) setKey(newData.key)
setIfPresent(S, newData, key, fail) ==
  IF Truthy(Get(newData, key))
  THEN setStoredValue(S, key, Get(newData, key), Get(newData, key), fail)
  ELSE S

setAllData(S, newData, fail) ==
  LET S1 == setIfPresent(S, newData, "habits", fail)
      S2 == setIfPresent(S1, newData, "todos", fail)
      S3 == setIfPresent(S2, newData, "expenses", fail)
      S4 == setIfPresent(S3, newData, "notes", fail)
      S5 == setIfPresent(S4, newData, "memories", fail)
      S6 == setIfPresent(S5, newData, "loans", fail)
      S7 == setIfPresent(S6, newData, "rewards", fail)
  IN setIfPresent(S7, newData, "sleepSessions", fail)

\* invalidFormat without its typeof test: only null is refused
invalidFormatNullOnly(importedData) == importedData.t = "null"

\* typeof importedData !== 'object' || importedData === null
invalidFormat(importedData) ==
  ~(importedData.t \in {"object", "array"})

\* the try block of reader.onload: TRUE when it reaches setAllData
importAccepted(text) ==
  Parses(text) /\ ~invalidFormat(JsonParse(text))

\* reader.onload of importData, for the k-th read in flight
importLoaded(k, fail) ==
  /\ k \in DOMAIN pending
  /\ pending[k].kind = "import"
  /\ IF importAccepted(pending[k].file)
     THEN /\ Commit(setAllData(Cells, JsonParse(pending[k].file), fail))
          /\ notice' = "success"
     ELSE /\ notice' = "error"
          /\ UNCHANGED <<screen, store, storage, writeFailed, crashed>>
  /\ pending' = RemoveAt(pending, k)
  /\ UNCHANGED <<now, download, exportedStore>>

\* window.location.reload(): every cell is re-initialised from localStorage,
\* reads in flight are dropped, files already downloaded stay
Reload ==
  /\ store' = [k \in Keys |-> readStored(k, storage[k])]
  /\ crashed' = RenderThrows([k \in Keys |-> readStored(k, storage[k])])
  /\ pending' = <<>>
  /\ notice' = "none"
  /\ screen' = Mounted("dashboard")
  /\ UNCHANGED <<storage, now, download, exportedStore, writeFailed>>

\* the files the user may pick in the import dialog
Doc(o) == JsonText(Obj(o))
OnlyRewards500 == Doc([k \in {"rewards"} |-> Num(500)])
OnlyRewards0 == Doc([k \in {"rewards"} |-> Num(0)])
NoHabits == Doc([k \in {"habits"} |-> Arr(<<>>)])
ForeignKey == Doc([k \in {"exportDate"} |-> Iso(0)])
BadFiles ==
  {GarbageText, JsonText(Null), JsonText(Num(5)), JsonText(Str("x")),
   JsonText(Bool(TRUE))}
\* a document that parses to an object but holds a number under a known key
HabitsNumber == Doc([k \in {"habits"} |-> Num(5)])
OnlyRewards7 == Doc([k \in {"rewards"} |-> Num(7)])
\* the backup of a store with one habit, not completed, and no points
FreshBackup ==
  Doc([k \in {"habits", "rewards"} |->
         IF k = "habits"
         THEN Arr(<<[id |-> 0, name |-> "a", completedDates |-> <<>>,
                     createdAt |-> Iso(0)]>>)
         ELSE Num(0)])
PartialFiles == {OnlyRewards500, OnlyRewards0, NoHabits, ForeignKey}

\* a backup with ActivityLen habits, all completed on day 0, and as many
\* completed tasks
ActivityLen == 4
LineNames == <<"n1", "n2", "n3", "n4", "n5", "n6">>
ActivityFile ==
  Doc([k \in {"habits", "todos"} |->
         IF k = "habits"
         THEN Arr([i \in 1..ActivityLen |->
                     [id |-> i, name |-> LineNames[i], completedDates |-> <<0>>,
                      createdAt |-> Iso(0)]])
         ELSE Arr([i \in 1..ActivityLen |->
                     [id |-> i, task |-> LineNames[i], completed |-> TRUE,
                      photo |-> Null, createdAt |-> Iso(0)]])])

\* ------------------------------------------------------- specifications
NoFail == {}

\* the ids the lists on screen offer to toggle / delete / attach buttons
IdsOf(v) == {v.a[i].id : i \in DOMAIN v.a}

\* habits only
NextHabit ==
  \/ Tick
  \/ \E name \in Names : addHabit(name, NoFail)
  \/ \E id \in Ids : toggleHabit(id, NoFail)
  \/ \E id \in Ids : deleteItem("habit", id, NoFail)
SpecHabit == Init /\ [][NextHabit]_vars

\* tasks, with photo reads in flight
NextTodo ==
  \/ Tick
  \/ \E task \in Names : addTodo(task, NoFail)
  \/ \E id \in IdsOf(todos) : toggleTodo(id, NoFail)
  \/ \E id \in IdsOf(todos), image \in Images : uploadTodoPhoto(id, image)
  \/ \E k \in DOMAIN pending : todoPhotoLoaded(k, NoFail)
  \/ \E type \in {"todo", "unknown"}, id \in IdsOf(todos) :
       deleteItem(type, id, NoFail)
SpecTodo == Init /\ [][NextTodo]_vars

\* loans only
NextLoan ==
  \/ Tick
  \/ \E p \in Names, amount \in AmountTexts : addLoan(p, amount, "", NoFail)
  \/ \E id \in Ids : toggleLoanReturn(id, NoFail)
  \/ \E id \in Ids : deleteItem("loan", id, NoFail)
SpecLoan == Init /\ [][NextLoan]_vars

\* expenses only
NextExpense ==
  \/ Tick
  \/ \E d \in Names, amount \in AmountTexts, c \in Categories :
       addExpense(d, amount, c, NoFail)
  \/ \E id \in Ids : deleteItem("expense", id, NoFail)
SpecExpense == Init /\ [][NextExpense]_vars

\* export, and import of backups and partial documents, around habit changes
NextImport ==
  \/ \E name \in Names : addHabit(name, NoFail)
  \/ exportData
  \/ \E file \in PartialFiles \cup ({download} \ {NoItem}) : importData(file)
  \/ \E k \in DOMAIN pending : importLoaded(k, NoFail)
SpecImport == Init /\ [][NextImport]_vars

\* import of files that are not backups, around habit changes
NextBadImport ==
  \/ \E name \in Names : addHabit(name, NoFail)
  \/ \E id \in IdsOf(habits) : toggleHabit(id, NoFail)
  \/ \E file \in BadFiles \cup {OnlyRewards500} : importData(file)
  \/ \E k \in DOMAIN pending : importLoaded(k, NoFail)
SpecBadImport == Init /\ [][NextBadImport]_vars

\* persistence: setItem may throw, the page may be reloaded
PersistFailSets == SUBSET {"habits", "rewards"}
NextPersist ==
  \/ \E name \in Names, fail \in PersistFailSets : addHabit(name, fail)
  \/ \E id \in IdsOf(habits), fail \in PersistFailSets : toggleHabit(id, fail)
  \/ \E file \in {OnlyRewards500, NoHabits} : importData(file)
  \/ \E k \in DOMAIN pending, fail \in PersistFailSets : importLoaded(k, fail)
  \/ Reload
SpecPersist == Init /\ [][NextPersist]_vars

\* every mutator of every collection, on a store of few entities, within
\* one clock value
MaxEntities == 2     \* adds stop when the collections hold this many entities
RECURSIVE SumLen(_)
SumLen(ks) ==
  IF ks = {} THEN 0
  ELSE LET k == CHOOSE x \in ks : TRUE IN Len(store[k].a) + SumLen(ks \ {k})
Room == SumLen(CollectionKeys) < MaxEntities

OneAmount == {[numeric |-> TRUE, val |-> 1]}
Idle == pending = <<>>      \* one FileReader read at a time
MaxPoints == 10      \* toggles stop once the reward counter is above this
Few == rewards.n <= MaxPoints

NextAll ==
  \/ Room /\ \E name \in Names : addHabit(name, NoFail)
  \/ Few /\ \E id \in IdsOf(habits) : toggleHabit(id, NoFail)
  \/ Room /\ \E task \in Names : addTodo(task, NoFail)
  \/ Few /\ \E id \in IdsOf(todos) : toggleTodo(id, NoFail)
  \/ Idle /\ \E id \in IdsOf(todos), image \in Images : uploadTodoPhoto(id, image)
  \/ \E k \in DOMAIN pending : todoPhotoLoaded(k, NoFail)
  \/ Room /\ \E d \in Names, amount \in OneAmount :
       addExpense(d, amount, "Food", NoFail)
  \/ Room /\ \E t \in Names, c \in Names : addNote(t, c, NoFail)
  \/ Idle /\ \E t \in Names, image \in Images : addMemory(t, image)
  \/ Room /\ \E k \in DOMAIN pending : memoryLoaded(k, NoFail)
  \/ Room /\ \E p \in Names, amount \in OneAmount : addLoan(p, amount, "", NoFail)
  \/ \E id \in IdsOf(loans) : toggleLoanReturn(id, NoFail)
  \/ Room /\ \E d \in OneAmount : addSleepSession(d, FALSE, NoFail)
  \/ \E type \in DeleteTypes : \E id \in IdsOf(store[setterKey(type)]) :
       deleteItem(type, id, NoFail)
  \/ deleteItem("unknown", now, NoFail)
SpecAll == Init /\ [][NextAll]_vars

\* tasks added and removed by any id, present or absent, with photo reads
\* in flight
NextRemove ==
  \/ Tick
  \/ \E task \in Names : addTodo(task, NoFail)
  \/ \E id \in IdsOf(todos), image \in Images : uploadTodoPhoto(id, image)
  \/ \E k \in DOMAIN pending : todoPhotoLoaded(k, NoFail)
  \/ \E type \in {"todo", "unknown"}, id \in Ids : deleteItem(type, id, NoFail)
SpecRemove == Init /\ [][NextRemove]_vars

\* tasks toggled, added and removed while one photo read is in flight
NextPhoto ==
  \/ Tick
  \/ \E task \in Names : addTodo(task, NoFail)
  \/ Few /\ \E id \in IdsOf(todos) : toggleTodo(id, NoFail)
  \/ Idle /\ \E id \in IdsOf(todos), image \in Images : uploadTodoPhoto(id, image)
  \/ \E k \in DOMAIN pending : todoPhotoLoaded(k, NoFail)
  \/ \E id \in IdsOf(todos) : deleteItem("todo", id, NoFail)
SpecPhoto == Init /\ [][NextPhoto]_vars

\* memories whose reads overlap and finish in any order, beside expenses;
\* a memory is titled "m1" when no read is in flight and "m2" when one is
NextMemory ==
  \/ Tick
  \/ Idle /\ \E image \in Images : addMemory("m1", image)
  \/ ~Idle /\ \E image \in Images : addMemory("m2", image)
  \/ \E k \in DOMAIN pending : memoryLoaded(k, NoFail)
  \/ \E d \in Names, amount \in OneAmount : addExpense(d, amount, "Food", NoFail)
  \/ \E type \in {"memory", "expense"} :
       \E id \in IdsOf(store[setterKey(type)]) : deleteItem(type, id, NoFail)
SpecMemory == Init /\ [][NextMemory]_vars

\* the chart's four collections, each changed on its own tab, over two days
On(tab) == screen.activeTab = tab
NextChart ==
  \/ Tick
  \/ \E tab \in {"dashboard", "habits", "todos", "expenses", "sleep"} :
       setActiveTab(tab)
  \/ On("habits") /\ Room /\ \E name \in Names : addHabit(name, NoFail)
  \/ On("habits") /\ Few /\ \E id \in IdsOf(habits) : toggleHabit(id, NoFail)
  \/ On("todos") /\ Room /\ \E task \in Names : addTodo(task, NoFail)
  \/ On("todos") /\ Few /\ \E id \in IdsOf(todos) : toggleTodo(id, NoFail)
  \/ On("expenses") /\ Room /\ \E d \in Names, amount \in OneAmount :
       addExpense(d, amount, "Food", NoFail)
  \/ On("sleep") /\ Room /\ \E d \in OneAmount, aft \in BOOLEAN :
       addSleepSession(d, aft, NoFail)
SpecChart == Init /\ [][NextChart]_vars

\* sleep sessions of either kind, added and removed over a year's end
NextSleep ==
  \/ Tick
  \/ \E d \in AmountTexts, aft \in BOOLEAN : addSleepSession(d, aft, NoFail)
  \/ \E id \in IdsOf(sleepSessions) : deleteItem("sleep", id, NoFail)
SpecSleep == Init /\ [][NextSleep]_vars

\* the dashboard's activity list: a backup is imported, habits and tasks are
\* toggled on their tabs, over two days
NextActivity ==
  \/ Tick
  \/ \E tab \in {"dashboard", "habits", "todos"} : setActiveTab(tab)
  \/ Idle /\ importData(ActivityFile)
  \/ \E k \in DOMAIN pending : importLoaded(k, NoFail)
  \/ On("habits") /\ Few /\ \E id \in IdsOf(habits) : toggleHabit(id, NoFail)
  \/ On("todos") /\ Few /\ \E id \in IdsOf(todos) : toggleTodo(id, NoFail)
SpecActivity == Init /\ [][NextActivity]_vars

\* imports of documents whose values have any type, around habit additions
\* and reloads of the page
NextTypes ==
  \/ \E name \in Names : addHabit(name, NoFail)
  \/ \E file \in {HabitsNumber, OnlyRewards500, NoHabits} : importData(file)
  \/ \E k \in DOMAIN pending : importLoaded(k, NoFail)
  \/ Reload
SpecTypes == Init /\ [][NextTypes]_vars

\* imports of documents holding only a reward counter (500, 7 or 0), around
\* the completion of habits
NextRewards ==
  \/ \E name \in Names : addHabit(name, NoFail)
  \/ \E id \in IdsOf(habits) : toggleHabit(id, NoFail)
  \/ Idle /\ \E file \in {OnlyRewards500, OnlyRewards7, OnlyRewards0} :
       importData(file)
  \/ \E k \in DOMAIN pending : importLoaded(k, NoFail)
SpecRewards == Init /\ [][NextRewards]_vars

\* habits added, toggled and removed while the read of an import is in
\* flight
FlightFiles == {FreshBackup, NoHabits, OnlyRewards500}
NextFlight ==
  \/ \E name \in Names : addHabit(name, NoFail)
  \/ Few /\ \E id \in IdsOf(habits) : toggleHabit(id, NoFail)
  \/ \E id \in IdsOf(habits) : deleteItem("habit", id, NoFail)
  \/ Idle /\ \E file \in FlightFiles : importData(file)
  \/ \E k \in DOMAIN pending : importLoaded(k, NoFail)
SpecFlight == Init /\ [][NextFlight]_vars

\* every operation
Next ==
  \/ NextHabit \/ NextTodo \/ NextLoan \/ NextExpense \/ NextImport
  \/ NextBadImport \/ NextPersist
  \/ \E t \in Names, c \in Names : addNote(t, c, NoFail)
  \/ \E t \in Names, image \in Images : addMemory(t, image)
  \/ \E k \in DOMAIN pending : memoryLoaded(k, NoFail)
  \/ \E d \in AmountTexts, aft \in BOOLEAN : addSleepSession(d, aft, NoFail)
  \/ \E tab \in Tabs : setActiveTab(tab)
Spec == Init /\ [][Next]_vars

\* ================================================================ claims
IsToday(h) == Includes(completedDatesOf(h), DayOf(now))
HasId(a, id) == \E i \in DOMAIN a : a[i].id = id

\* C1: every toggleHabit(id) call flips today's membership of the habit with
\* that id, and raises the reward counter by exactly 10 when the call sets
\* membership and by 0 when it unsets it.
C1_ToggleParityAndReward ==
  [][\A id \in Ids :
       (toggleHabit(id, NoFail) /\ HasId(habits.a, id)) =>
         LET sets == \E i \in DOMAIN habits.a :
                       habits.a[i].id = id /\ ~IsToday(habits.a[i])
         IN /\ \A i \in DOMAIN habits.a :
                 habits.a[i].id = id =>
                   (Includes(habits'.a[i].completedDates, DayOf(now))
                      <=> ~IsToday(habits.a[i]))
            /\ rewards' = Num(rewards.n + (IF sets THEN 10 ELSE 0))]_vars

\* C2: while no write has failed, what is stored under each written key
\* decodes to the in-memory value of that key.
C2_PersistedDecodesToMemory ==
  ~writeFailed =>
    \A k \in Keys :
      storage[k] # NoItem =>
        Parses(storage[k]) /\ JsonParse(storage[k]) = store[k]

\* C3: the dashboard's pending loan total equals total lent minus total
\* returned.
C3_PendingIsLentMinusReturned == pendingLoansAmount = pendingAmount

\* C4: importing the file exportData wrote restores the store that was
\* exported, whatever the store has become since.
C4_ImportOfExportRestores ==
  [][\A k \in DOMAIN pending :
       (importLoaded(k, NoFail) /\ download # NoItem
          /\ pending[k].file = download) => store' = exportedStore]_vars

\* the per-category sums of the expenses, computed independently
ExpensesIn(c) == FilterSeq(expenses.a, {e \in Elems(expenses.a) : e.category = c})

\* C5: the entries of categoryTotals add up to totalExpenses, and each entry
\* is the sum of the amounts of the expenses of its category.
C5_CategoryTotalsMatch ==
  /\ SumFrom(Num(0),
             [i \in DOMAIN categoryTotals.keys |->
                [amount |-> categoryTotals.val[categoryTotals.keys[i]]]],
             "amount") = totalExpenses
  /\ \A c \in DOMAIN categoryTotals.val :
       categoryTotals.val[c] = SumField(ExpensesIn(c), "amount")

\* C6: an accepted import replaces every known key present in the document
\* by the document's value, whatever the value.
C6_ImportReplacesPresentKeys ==
  [][\A k \in DOMAIN pending :
       (importLoaded(k, NoFail) /\ Parses(pending[k].file)
          /\ JsonParse(pending[k].file).t = "object") =>
         \A key \in Keys \cap DOMAIN JsonParse(pending[k].file).o :
           store'[key] = JsonParse(pending[k].file).o[key]]_vars

\* C7: an import changes no cell whose key the document lacks; a document
\* holding only rewards = 500 changes the reward counter to 500 and nothing
\* else.
C7_ImportLeavesAbsentKeys ==
  [][\A k \in DOMAIN pending :
       importLoaded(k, NoFail) =>
         /\ \A key \in Keys :
              (~Parses(pending[k].file)
                 \/ JsonParse(pending[k].file).t # "object"
                 \/ key \notin DOMAIN JsonParse(pending[k].file).o)
              => store'[key] = store[key]
         /\ pending[k].file = OnlyRewards500 =>
              /\ rewards' = Num(500)
              /\ \A key \in CollectionKeys : store'[key] = store[key]]_vars

\* an import of a rewards-only document has been applied to a store with a
\* habit in it (no backup was ever written, so the 500 came from that file)
C7_Witness ==
  /\ notice = "success" /\ download = NoItem
  /\ rewards = Num(500) /\ Len(habits.a) > 0

\* C8: an import of a file that is not JSON, or is JSON null, a number, a
\* string or a boolean, shows the error notice and changes no cell.
C8_BadImportFails ==
  [][\A k \in DOMAIN pending :
       (importLoaded(k, NoFail) /\ pending[k].file \in BadFiles) =>
         notice' = "error" /\ store' = store]_vars

\* a bad file has been refused while the store held a rewarded habit
C8_Witness ==
  /\ notice = "error" /\ pending = <<>>
  /\ Len(habits.a) > 0 /\ rewards = Num(10)

HasTimestamp(l) == "dateReturned" \in DOMAIN l /\ "iso" \in DOMAIN l.dateReturned
NoTimestamp(l) == "dateReturned" \notin DOMAIN l \/ l.dateReturned = Null

C9_Inv ==
  /\ \A i \in DOMAIN loans.a :
       /\ loans.a[i].returned <=> HasTimestamp(loans.a[i])
       /\ ~loans.a[i].returned <=> NoTimestamp(loans.a[i])
  /\ (Len(loans.a) = 1 /\ IsNum(loans.a[1].amount)) =>
       pendingLoansAmount =
         (IF loans.a[1].returned THEN Num(0) ELSE loans.a[1].amount)

C9_Step ==
  \A id \in Ids :
    toggleLoanReturn(id, NoFail) =>
      \A i \in DOMAIN loans.a :
        loans.a[i].id = id =>
          /\ loans'.a[i].returned = ~loans.a[i].returned
          /\ loans'.a[i].dateReturned =
               (IF loans.a[i].returned THEN Null ELSE Iso(now))

\* C9: a loan is returned exactly when it carries a dateReturned timestamp
\* and not returned exactly when dateReturned is null or absent;
\* toggleLoanReturn stamps the current time on false -> true and clears it on
\* true -> false; a single loan counts as pending exactly while not returned.
C9_ReturnedIffDated == []C9_Inv /\ [][C9_Step]_vars

\* a loan has been returned and un-returned again
C9_Witness ==
  \E i \in DOMAIN loans.a :
    /\ ~loans.a[i].returned
    /\ "dateReturned" \in DOMAIN loans.a[i] /\ loans.a[i].dateReturned = Null

\* C10: no two entities of one collection have the same id.
C10_UniqueIds ==
  \A key \in CollectionKeys :
    \A i, j \in DOMAIN store[key].a :
      i # j => store[key].a[i].id # store[key].a[j].id

\* C11: in every habit's completedDates each calendar date occurs at most
\* once.
C11_DatesAtMostOnce ==
  \A i \in DOMAIN habits.a :
    \A p, q \in DOMAIN habits.a[i].completedDates :
      p # q => habits.a[i].completedDates[p] # habits.a[i].completedDates[q]

\* the only habit is completed on two different days, and was toggled off
\* and on again on the way (three rewarded toggles)
C11_Witness ==
  /\ Len(habits.a) = 1
  /\ Len(habits.a[1].completedDates) = 2
  /\ rewards.n >= 30

\* C12: no step of a mutator (add, toggle, attach photo, remove, on any
\* collection) lowers the reward counter.
C12_RewardsNeverDecrease ==
  [][IsNum(rewards) /\ IsNum(rewards') /\ rewards'.n >= rewards.n]_vars

\* a completed habit has been deleted and a completed task un-completed, and
\* the points of both are still there
C12_Witness ==
  /\ rewards.n >= 15
  /\ habits.a = <<>>
  /\ Len(todos.a) = 1 /\ ~todos.a[1].completed

\* C13: a toggleTodo(id) call flips the completed flag of the task with that
\* id exactly once, and raises the reward counter by exactly 5 when the task
\* was incomplete and by 0 when it was complete.
C13_ToggleFlipsOnceAndRewards ==
  [][\A id \in Ids :
       (toggleTodo(id, NoFail) /\ HasId(todos.a, id)) =>
         LET completes == \E i \in DOMAIN todos.a :
                            todos.a[i].id = id /\ ~todos.a[i].completed
         IN /\ \A i \in DOMAIN todos.a :
                 todos.a[i].id = id =>
                   todos'.a[i].completed = ~todos.a[i].completed
            /\ rewards' = Num(rewards.n + (IF completes THEN 5 ELSE 0))]_vars

\* C14: deleteItem(type, id) leaves in the collection exactly the entities
\* whose id differs from id, in their previous order; with no such entity, or
\* with an unknown type, the Store is unchanged and nothing fails; and only an
\* add brings an id into the collection, so a removed task is never restored
\* by a later removal or photo completion.
IdSet(a) == {a[i].id : i \in DOMAIN a}
C14_RemoveFiltersById ==
  [][/\ \A id \in Ids :
          deleteItem("todo", id, NoFail) =>
            LET kept == {i \in DOMAIN todos.a : todos.a[i].id # id}
            IN /\ Len(todos'.a) = Cardinality(kept)
               /\ \A i \in kept :
                    todos'.a[Cardinality({j \in kept : j <= i})] = todos.a[i]
               /\ (id \notin IdSet(todos.a)) => store' = store
               /\ ~crashed' /\ notice' = notice
               /\ \A k \in Keys \ {"todos"} : store'[k] = store[k]
     /\ \A id \in Ids :
          deleteItem("unknown", id, NoFail) =>
            store' = store /\ ~crashed' /\ notice' = notice
     /\ \/ \E task \in Names : addTodo(task, NoFail)
        \/ IdSet(todos'.a) \subseteq IdSet(todos.a)]_vars
\* a task was removed while its photo read was in flight, and the two tasks
\* that remain kept their order
C14_Witness ==
  /\ Len(todos.a) = 2 /\ todos.a[1].id = 1 /\ todos.a[2].id = 2
  /\ todos.a[1].photo # Null
  /\ Len(pending) = 1 /\ pending[1].id = 0

\* C15: every mutator changes only the Store field of its own entity type;
\* toggleHabit when it sets today and toggleTodo when it completes a task also
\* raise the reward counter, and no other mutator changes the counter.
Only(ks) == \A k \in Keys \ ks : store'[k] = store[k]
OwnField ==
  [habit |-> "habits", todo |-> "todos", expense |-> "expenses",
   note |-> "notes", memory |-> "memories", loan |-> "loans",
   sleep |-> "sleepSessions"]
Sets(id) == \E i \in DOMAIN habits.a : habits.a[i].id = id /\ ~IsToday(habits.a[i])
Completes(id) == \E i \in DOMAIN todos.a : todos.a[i].id = id /\ ~todos.a[i].completed
C15_MutatorsFrame ==
  [][/\ \/ store' = store
        \/ /\ Only({"habits"}) \/ ~\E name \in Names : addHabit(name, NoFail)
           /\ Only({"habits", "rewards"})
                \/ ~\E id \in IdsOf(habits) : toggleHabit(id, NoFail)
           /\ Only({"todos"}) \/ ~\E task \in Names : addTodo(task, NoFail)
           /\ Only({"todos", "rewards"})
                \/ ~\E id \in IdsOf(todos) : toggleTodo(id, NoFail)
           /\ Only({"todos"})
                \/ ~\E k \in DOMAIN pending : todoPhotoLoaded(k, NoFail)
           /\ Only({"expenses"})
                \/ ~\E d \in Names, amount \in OneAmount :
                       addExpense(d, amount, "Food", NoFail)
           /\ Only({"notes"})
                \/ ~\E t \in Names, c \in Names : addNote(t, c, NoFail)
           /\ Only({"memories"})
                \/ ~\E k \in DOMAIN pending : memoryLoaded(k, NoFail)
           /\ Only({"loans"})
                \/ ~\E p \in Names, amount \in OneAmount :
                       addLoan(p, amount, "", NoFail)
           /\ Only({"loans"})
                \/ ~\E id \in IdsOf(loans) : toggleLoanReturn(id, NoFail)
           /\ Only({"sleepSessions"})
                \/ ~\E d \in OneAmount : addSleepSession(d, FALSE, NoFail)
           /\ \A type \in DeleteTypes :
                Only({OwnField[type]}) \/ ~deleteItem(type, now, NoFail)
           /\ ~\E id \in IdsOf(todos), image \in Images :
                  uploadTodoPhoto(id, image)
           /\ ~\E t \in Names, image \in Images : addMemory(t, image)
           /\ ~deleteItem("unknown", now, NoFail)
     /\ \/ rewards' = rewards
        \/ /\ rewards'.n > rewards.n
           /\ \/ \E id \in IdsOf(habits) : Sets(id) /\ toggleHabit(id, NoFail)
              \/ \E id \in IdsOf(todos) : Completes(id) /\ toggleTodo(id, NoFail)
     /\ \A id \in IdsOf(habits) :
          Sets(id) => (rewards'.n > rewards.n \/ ~toggleHabit(id, NoFail))
     /\ \A id \in IdsOf(todos) :
          Completes(id) => (rewards'.n > rewards.n \/ ~toggleTodo(id, NoFail))]_vars
\* a sleep session was removed while a returned loan and a habit completed
\* today, with its 10 points, stayed
C15_Witness ==
  /\ Len(habits.a) = 1 /\ IsToday(habits.a[1]) /\ rewards = Num(10)
  /\ Len(loans.a) = 1 /\ loans.a[1].returned
  /\ sleepSessions.a = <<>> /\ storage["sleepSessions"] = UndefinedText

\* C16: uploadTodoPhoto changes the Store only when its read completes; the
\* completion sets the photo of the tasks whose id matches and leaves every
\* other task, and every other field of the matching task, as they are at
\* that moment (so what was toggled, added or removed during the read stays);
\* with no matching task left it changes nothing and adds no task.
C16_PhotoOnlyAtCompletion ==
  [][/\ store' = store
          \/ ~\E id \in Ids, image \in Images : uploadTodoPhoto(id, image)
     /\ \A k \in DOMAIN pending :
          todoPhotoLoaded(k, NoFail) =>
            /\ Only({"todos"})
            /\ Len(todos'.a) = Len(todos.a)
            /\ \A i \in DOMAIN todos.a :
                 todos'.a[i] =
                   IF todos.a[i].id = pending[k].id
                   THEN [todos.a[i] EXCEPT
                           !.photo = DataUrl(pending[k].image)]
                   ELSE todos.a[i]
            /\ (pending[k].id \notin IdSet(todos.a)) => store' = store]_vars
\* after an earlier task was removed, a read has completed: the completed
\* task it was for has its photo and the task added after it has none
C16_Witness ==
  /\ Len(todos.a) = 2 /\ pending = <<>>
  /\ todos.a[1].id = 1 /\ todos.a[1].completed /\ todos.a[1].photo # Null
  /\ todos.a[2].id = 2 /\ todos.a[2].photo = Null
  /\ storage["todos"] = UndefinedText

\* C17: in every state reached by adds and removals under a clock that never
\* goes back, the ids of every collection are non-decreasing in collection
\* order; memories included, whose entity is made when its read completes,
\* in whatever order the reads complete.
C17_IdsNonDecreasing ==
  \A key \in CollectionKeys :
    \A i, j \in DOMAIN store[key].a :
      i < j => store[key].a[i].id <= store[key].a[j].id
\* the second memory's read finished first; the first one's read is still in
\* flight and an older and a newer expense are in place
C17_Witness ==
  /\ Len(memories.a) = 1 /\ memories.a[1].title = "m2" /\ memories.a[1].id = 0
  /\ now = 1 /\ Len(pending) = 1 /\ pending[1].title = "m1"
  /\ Len(expenses.a) = 2 /\ expenses.a[1].id = 0 /\ expenses.a[2].id = 1

\* C18: the 7-day series on the dashboard has exactly 7 records, for the 7
\* calendar days ending today (the day of the render), oldest first; the
\* record of day d holds the number of habits completed on d, the number of
\* completed tasks created on d, the sum of the amounts of the expenses dated
\* d and the sum of the durations of the sleep sessions dated d.
Dated(a, field, d) ==
  FilterSeq(a, {x \in Elems(a) : DayOf(x[field].iso) = d})
SeriesRecord(d) ==
  [date |-> shortDate(d),
   Habits |-> Cardinality({i \in DOMAIN habits.a :
                             Includes(habits.a[i].completedDates, d)}),
   Tasks |-> Cardinality({i \in DOMAIN todos.a :
                            /\ todos.a[i].completed
                            /\ DayOf(todos.a[i].createdAt.iso) = d}),
   Expenses |-> SumField(Dated(expenses.a, "date", d), "amount"),
   Sleep |-> SumField(Dated(sleepSessions.a, "date", d), "duration")]
C18_SeriesOfLast7Days ==
  On("dashboard") =>
    /\ Len(getChartData) = 7
    /\ \A k \in 1..7 : getChartData[k] = SeriesRecord(screen.rendered - 7 + k)

\* C19: the sleep series has exactly one record per distinct calendar date
\* with a sleep session, holding the sum of that date's afternoon durations
\* and the sum of its other durations, and the records are in chronological
\* order of their dates, a year's end between them or not.
SleepDays == {DayOf(sleepSessions.a[i].date.iso) : i \in DOMAIN sleepSessions.a}
SleepOf(d, afternoon) ==
  SumField(FilterSeq(sleepSessions.a,
                     {s \in Elems(sleepSessions.a) :
                        DayOf(s.date.iso) = d /\ s.isAfternoon = afternoon}),
           "duration")
C19_SleepSeriesChronological ==
  \A engine \in Engines :
    /\ Len(sleepChartData(engine)) = Cardinality(SleepDays)
    /\ \A d \in SleepDays :
         sleepChartData(engine)[Cardinality({e \in SleepDays : e <= d})] =
           [date |-> shortDate(d), nightSleep |-> SleepOf(d, FALSE),
            afternoonSleep |-> SleepOf(d, TRUE)]

\* C20: the activity list of the dashboard has at most 6 lines: first the
\* first 3, in collection order, of the habits completed today (the day of the
\* render), then the last 3, in collection order, of the completed tasks; it
\* is empty exactly when no habit is completed today and no task is completed.
DoneToday(today) ==
  {i \in DOMAIN habits.a : Includes(habits.a[i].completedDates, today)}
Finished == {i \in DOMAIN todos.a : todos.a[i].completed}
Least(a, b) == IF a < b THEN a ELSE b
ActivityAsClaimed(lines, today) ==
  LET H == DoneToday(today)
      nH == Least(3, Cardinality(H))
      nT == Least(3, Cardinality(Finished))
  IN /\ Len(lines) = nH + nT /\ Len(lines) <= 6
     /\ \A i \in H :
          Cardinality({j \in H : j <= i}) <= 3 =>
            lines[Cardinality({j \in H : j <= i})] =
              [type |-> "habit", text |-> habits.a[i].name]
     /\ \A i \in Finished :
          Cardinality({j \in Finished : j >= i}) <= 3 =>
            lines[nH + nT + 1 - Cardinality({j \in Finished : j >= i})] =
              [type |-> "todo", text |-> todos.a[i].task]
     /\ (lines = <<>>) <=> (H = {} /\ Finished = {})
C20_RecentActivity ==
  On("dashboard") => ActivityAsClaimed(recentActivity, screen.rendered)


\* C21: after any mutators and imports of documents that parse to an object,
\* each of the seven collections is a sequence and the reward counter a
\* number, and no render (where every aggregate is computed) throws.
C21_StoreKeepsItsTypes ==
  /\ \A key \in CollectionKeys : IsArr(store[key])
  /\ IsNum(rewards)
  /\ ~crashed


\* C22: an import overwrites the reward counter only when the document's
\* rewards value is truthy: a document with rewards 0 leaves the counter as it
\* is, one with a non-zero number sets the counter to exactly that number,
\* lower than the current one or not, and one without the key leaves it.
C22_RewardsOverwrittenWhenTruthy ==
  [][\A k \in DOMAIN pending :
       importLoaded(k, NoFail) =>
         LET doc == pending[k].file.doc
             incoming == doc.o["rewards"]
         IN IF "rewards" \in DOMAIN doc.o /\ incoming.n # 0
            THEN rewards' = incoming
            ELSE rewards' = rewards]_vars
\* a habit's completion had raised the counter to 10 or more, and a later
\* import of rewards 7 has lowered it
C22_Witness ==
  /\ rewards = Num(7) /\ notice = "success"
  /\ Len(habits.a) = 1 /\ IsToday(habits.a[1])


\* C23: on the dashboard, after any render, the day having advanced or not,
\* todaySleep equals the Sleep value of the last record of the 7-day series,
\* and that last record is the record of the current calendar day.
C23_ViewsAgreeOnToday ==
  On("dashboard") =>
    /\ todaySleep = getChartData[ChartDays].Sleep
    /\ getChartData[ChartDays].date = shortDate(screen.rendered)


\* C24: starting an import changes no cell; when its read completes, every
\* known key the document holds is replaced by the document's value, whatever
\* mutators did to it during the read, and every cell whose key the document
\* lacks stays as the mutators left it.
C24_ImportAppliedAtCompletion ==
  [][/\ (\E file \in FlightFiles : importData(file)) => store' = store
     /\ \A k \in DOMAIN pending :
          importLoaded(k, NoFail) =>
            \A key \in Keys :
              store'[key] =
                IF key \in DOMAIN pending[k].file.doc.o
                THEN pending[k].file.doc.o[key] ELSE store[key]]_vars

====
